---- MODULE Spec2Model ----
(***************************************************************************)
(* Model of web/api.py: EncryptionAPIHandler served by a single-threaded   *)
(* http.server.HTTPServer.  One request is handled at a time; further      *)
(* requests wait at the listening socket.  The transform endpoints write   *)
(* the text to /tmp/input.txt, run the external worker synchronously and   *)
(* read /tmp/output.txt back.                                              *)
(***************************************************************************)
EXTENDS Integers, Sequences, FiniteSets, TLC

\* ---------------------------------------------------------------- bounds
MaxLen == 1          \* longest ordinary request text
MaxBacklog == 1      \* requests waiting at the listening socket
MaxKey == 1          \* largest explicit key a client sends

\* ------------------------------------------------------ program constants
DefaultKey == 3                       \* data.get('key', 3)
InputPath == "/tmp/input.txt"
OutputPath == "/tmp/output.txt"
EncryptMode == "1"
DecryptMode == "2"

\* The body size limit the specification asks for; api.py has none.
MaxBodySize == 1

\* ------------------------------------------------------------- characters
Letters == <<"a", "b">>
Chars == {"a", "b", "CR", "LF"}
LineSep == <<"LF">>                   \* os.linesep on the POSIX host (/tmp paths)

RECURSIVE SeqsUpTo(_)
SeqsUpTo(n) ==
  IF n = 0 THEN {<<>>}
  ELSE LET S == SeqsUpTo(n - 1)
       IN  S \cup {Append(s, c) : s \in {t \in S : Len(t) = n - 1}, c \in Chars}

LongText == [i \in 1..(MaxBodySize + 1) |-> "a"]
Texts == SeqsUpTo(MaxLen) \cup {LongText}
Keys == 1..MaxKey

\* ------------------------------------------------------------- text files
\* open(path, 'w').write(s): every '\n' becomes os.linesep.
RECURSIVE WriteText(_)
WriteText(s) ==
  IF s = <<>> THEN <<>>
  ELSE (IF Head(s) = "LF" THEN LineSep ELSE <<Head(s)>>) \o WriteText(Tail(s))

\* open(path, 'r').read(): universal newlines, "\r\n" and "\r" become "\n".
RECURSIVE ReadText(_)
ReadText(s) ==
  IF s = <<>> THEN <<>>
  ELSE IF Head(s) = "CR"
       THEN IF Len(s) > 1 /\ s[2] = "LF"
            THEN <<"LF">> \o ReadText(Tail(Tail(s)))
            ELSE <<"LF">> \o ReadText(Tail(s))
       ELSE <<Head(s)>> \o ReadText(Tail(s))

NoFile == [exists |-> FALSE, content |-> <<>>, tag |-> "none"]
File(c, t) == [exists |-> TRUE, content |-> c, tag |-> t]

\* ------------------------------------------------------- external worker
\* Caesar-style worker of the specification: letters are shifted by the key
\* (mode 1) or back (mode 2), every other character is copied.
LetterIndex(c) == CHOOSE i \in 1..Len(Letters) : Letters[i] = c
IsLetter(c) == \E i \in 1..Len(Letters) : Letters[i] = c
ShiftChar(c, k) ==
  IF IsLetter(c)
  THEN Letters[((LetterIndex(c) - 1 + k) % Len(Letters)) + 1]
  ELSE c
KeyOfArg(s) == CHOOSE k \in Keys \cup {DefaultKey} : ToString(k) = s
Transform(s, keyArg, mode) ==
  LET k == IF mode = EncryptMode THEN KeyOfArg(keyArg) ELSE 0 - KeyOfArg(keyArg)
  IN  [i \in 1..Len(s) |-> ShiftChar(s[i], k)]

\* ------------------------------------------------------- static file tree
Cwd == <<"app", "web">>
Disk == {<<"app", "web", "index.html">>, <<"app", "secret.txt">>}

\* os.path.join(os.getcwd(), self.path.lstrip('/')) as the kernel resolves it.
RECURSIVE Resolve(_, _)
Resolve(base, segs) ==
  IF segs = <<>> THEN base
  ELSE IF Head(segs) = ".."
       THEN Resolve(IF base = <<>> THEN <<>> ELSE SubSeq(base, 1, Len(base) - 1),
                    Tail(segs))
       ELSE Resolve(Append(base, Head(segs)), Tail(segs))
FilePath(path) == Resolve(Cwd, path)
IsFile(p) == p \in Disk
HasDotDot(path) == \E i \in 1..Len(path) : path[i] = ".."
UnderCwd(p) == Len(p) > Len(Cwd) /\ SubSeq(p, 1, Len(Cwd)) = Cwd
IsHtml(p) == p # <<>> /\ p[Len(p)] = "index.html"

\* ---------------------------------------------------------------- requests
StatusPath == <<"api", "status">>
EncryptPath == <<"api", "encrypt">>
DecryptPath == <<"api", "decrypt">>
StaticPaths == {<<"index.html">>, <<"missing.txt">>, <<"..", "secret.txt">>}
RequestLines ==
  ({"GET"} \X ({StatusPath} \cup StaticPaths))
  \cup ({"OPTIONS"} \X {StatusPath})
  \cup ({"POST"} \X {EncryptPath, DecryptPath, StatusPath})

\* A body: its JSON kind and, for an object, its text and key fields and a
\* mode field the handler never asks for ("none" when the body has none).
NoBody == [kind |-> "none", hasText |-> FALSE, text |-> <<>>,
           hasKey |-> FALSE, key |-> 0, mode |-> "none"]
Bodies ==
  {[NoBody EXCEPT !.kind = k] : k \in {"malformed", "nonobject"}}
  \cup {[NoBody EXCEPT !.kind = "object", !.hasText = TRUE, !.text = t]
          : t \in Texts}
  \cup {[NoBody EXCEPT !.kind = "object", !.hasText = TRUE, !.text = t,
                       !.hasKey = TRUE, !.key = k]
          : t \in Texts, k \in Keys}
  \cup {[NoBody EXCEPT !.kind = "object"]}
  \cup {[NoBody EXCEPT !.kind = "object", !.hasText = TRUE, !.mode = m]
          : m \in {EncryptMode, DecryptMode}}
\* Size of a body, counted in characters of its text.
BodySize(b) == Len(b.text)
BodySizes == {BodySize(b) : b \in Bodies}

NoInvocation == [called |-> FALSE, args |-> <<>>, exit |-> "none"]
NoResponse == [sent |-> FALSE, status |-> 0, headers |-> {}, ctype |-> "none",
               kind |-> "none", text |-> <<>>]
CorsHeaders == {"Content-type", "Access-Control-Allow-Origin",
                "Access-Control-Allow-Methods", "Access-Control-Allow-Headers"}
NoRequest == [method |-> "none", path |-> <<>>, overlap |-> FALSE, afterFailure |-> FALSE,
              hasLength |-> FALSE, length |-> 0, bodyRead |-> FALSE, body |-> NoBody,
              inv |-> NoInvocation,
              result |-> <<>>, src |-> "none", resp |-> NoResponse]
NoExchange == [stage |-> "none", text |-> <<>>, hasKey |-> FALSE, key |-> 0,
               result |-> <<>>]

VARIABLES
  backlog,      \* requests received at the listening socket, not yet accepted
  pc,           \* position of the single handler thread
  cur,          \* the request being handled, or the last one handled
  inputFile,    \* /tmp/input.txt
  outputFile,   \* /tmp/output.txt
  rt            \* observer: an encrypt exchange and the decrypt that follows it

vars == <<backlog, pc, cur, inputFile, outputFile, rt>>

Init ==
  /\ backlog = <<>>
  /\ pc = "idle"
  /\ cur = NoRequest
  /\ inputFile = NoFile
  /\ outputFile = NoFile
  /\ rt = NoExchange

\* Variant: every POST is taken for a transform request.
IsTransformAnyPost(r) == r.method = "POST"
\* do_POST's two transform branches.
IsTransform(r) == r.method = "POST" /\ r.path \in {EncryptPath, DecryptPath}
\* Variant: the mode is taken from the body when the body names one.
ModeFromBody(r) ==
  IF r.body.mode # "none" THEN r.body.mode
  ELSE IF r.path = EncryptPath THEN EncryptMode ELSE DecryptMode
\* '1' in the /api/encrypt branch, '2' in the /api/decrypt branch.
Mode(r) == IF r.path = EncryptPath THEN EncryptMode ELSE DecryptMode
Busy == pc # "idle"
Closed == pc = "idle" /\ cur.method # "none"
\* Positions of the handler thread inside a request.
HandlingPcs == {"dispatch", "parse", "write_input", "run_worker", "wait_worker",
                "read_output", "respond"}
\* The last request was left by an exception: nothing was sent to it.
Failed == cur.method # "none" /\ pc \notin HandlingPcs /\ ~cur.resp.sent

\* _set_headers(content_type): send_response(200) and the four headers,
\* followed by the body the caller writes to wfile.
SetHeaders(ctype, kind, text) ==
  [sent |-> TRUE, status |-> 200, headers |-> CorsHeaders, ctype |-> ctype,
   kind |-> kind, text |-> text]
\* send_response(404); end_headers()
NotFound ==
  [sent |-> TRUE, status |-> 404, headers |-> {}, ctype |-> "none",
   kind |-> "none", text |-> <<>>]

\* A file written for an earlier request, seen from the next request.
Retag(f, overlap) ==
  IF ~f.exists THEN f
  ELSE IF f.tag = "own" /\ overlap THEN [f EXCEPT !.tag = "concurrent"]
  ELSE [f EXCEPT !.tag = "stale"]

\* A client connects and sends a request while the server may be busy.
Receive ==
  /\ Len(backlog) < MaxBacklog
  /\ \E line \in RequestLines :
       backlog' = Append(backlog,
                         [method |-> line[1], path |-> line[2],
                          overlap |-> (Busy \/ backlog # <<>>)])
  /\ UNCHANGED <<pc, cur, inputFile, outputFile, rt>>

\* serve_forever(): the idle server accepts the next connection and parses
\* the request line and the headers.  A transform request declares its body
\* size in Content-Length, or leaves the header out.
Accept ==
  /\ pc = "idle"
  /\ backlog # <<>>
  /\ LET h == Head(backlog)
     IN  /\ \E hasLength \in BOOLEAN, n \in BodySizes :
              /\ IsTransform(h) \/ (~hasLength /\ n = 0)
              /\ hasLength \/ n = 0
              /\ cur' = [NoRequest EXCEPT !.method = h.method, !.path = h.path,
                                          !.overlap = h.overlap,
                                          !.afterFailure = Failed,
                                          !.hasLength = hasLength, !.length = n]
         /\ inputFile' = Retag(inputFile, h.overlap)
         /\ outputFile' = Retag(outputFile, h.overlap)
  /\ backlog' = Tail(backlog)
  /\ pc' = "dispatch"
  /\ rt' = IF rt.stage = "enc" THEN rt ELSE NoExchange

\* Variant: the exception ends serve_forever.
RaiseStops ==
  /\ pc' = "stopped"
  /\ rt' = NoExchange
\* An exception leaves do_POST: socketserver logs it and closes the
\* connection; nothing is written to the client.  The server goes on.
Raise ==
  /\ pc' = "idle"
  /\ rt' = NoExchange

DoOptions ==
  /\ pc = "dispatch"
  /\ cur.method = "OPTIONS"
  /\ cur' = [cur EXCEPT !.resp = SetHeaders("application/json", "none", <<>>)]
  /\ pc' = "idle"
  /\ rt' = NoExchange
  /\ UNCHANGED <<backlog, inputFile, outputFile>>

DoGetStatus ==
  /\ pc = "dispatch"
  /\ cur.method = "GET"
  /\ cur.path = StatusPath
  /\ cur' = [cur EXCEPT !.resp = SetHeaders("application/json", "status", <<"running">>)]
  /\ pc' = "idle"
  /\ rt' = NoExchange
  /\ UNCHANGED <<backlog, inputFile, outputFile>>

DoGetStatic ==
  /\ pc = "dispatch"
  /\ cur.method = "GET"
  /\ cur.path # StatusPath
  /\ cur' = [cur EXCEPT !.resp =
               IF IsFile(FilePath(cur.path))
               THEN SetHeaders(IF IsHtml(FilePath(cur.path))
                               THEN "text/html" ELSE "text/plain",
                               "file", FilePath(cur.path))
               ELSE NotFound]
  /\ pc' = "idle"
  /\ rt' = NoExchange
  /\ UNCHANGED <<backlog, inputFile, outputFile>>

DoPostNotFound ==
  /\ pc = "dispatch"
  /\ cur.method = "POST"
  /\ ~IsTransform(cur)
  /\ cur' = [cur EXCEPT !.resp = NotFound]
  /\ pc' = "idle"
  /\ rt' = NoExchange
  /\ UNCHANGED <<backlog, inputFile, outputFile>>

\* Lines 37-38 / 60-61: int(self.headers['Content-Length']); rfile.read(n).
\* The body is read whatever its declared size.
ReadBody ==
  /\ pc = "dispatch"
  /\ IsTransform(cur)
  /\ IF ~cur.hasLength
     THEN Raise /\ cur' = cur
     ELSE \E b \in Bodies :
            /\ BodySize(b) = cur.length
            /\ cur' = [cur EXCEPT !.body = b, !.bodyRead = TRUE]
            /\ pc' = "parse"
            /\ rt' = IF /\ rt.stage = "enc"
                        /\ cur.path = DecryptPath
                        /\ b.kind = "object" /\ b.hasText
                        /\ b.text = rt.result
                        /\ b.hasKey = rt.hasKey /\ b.key = rt.key
                     THEN [rt EXCEPT !.stage = "dec"]
                     ELSE NoExchange
  /\ UNCHANGED <<backlog, inputFile, outputFile>>

\* Lines 39 / 62: json.loads(post_data.decode('utf-8')).
ParseJson ==
  /\ pc = "parse"
  /\ IF cur.body.kind = "malformed"
     THEN Raise
     ELSE pc' = "write_input" /\ rt' = rt
  /\ UNCHANGED <<backlog, cur, inputFile, outputFile>>

\* data.get('text', '')
TextOf(b) == IF b.hasText THEN b.text ELSE <<>>
\* str(data.get('key', 3))
KeyArg(b) == ToString(IF b.hasKey THEN b.key ELSE DefaultKey)

\* Lines 42-43 / 65-66: open('/tmp/input.txt', 'w') then f.write(...).
\* open() may fail; a body that is not a JSON object fails in data.get after
\* the file has been truncated.
WriteInput ==
  /\ pc = "write_input"
  /\ \E ioOk \in BOOLEAN :
       IF ~ioOk
       THEN Raise /\ inputFile' = inputFile
       ELSE IF cur.body.kind = "nonobject"
       THEN Raise /\ inputFile' = File(<<>>, "own")
       ELSE /\ inputFile' = File(WriteText(TextOf(cur.body)), "own")
            /\ pc' = "run_worker"
            /\ rt' = rt
  /\ UNCHANGED <<backlog, cur, outputFile>>

WorkerArgs(r) == <<InputPath, OutputPath, KeyArg(r.body), Mode(r)>>

\* Lines 46-50 / 69-73: build cmd and subprocess.run(cmd) starts the child.
\* The executable may be missing (FileNotFoundError).
SpawnWorker ==
  /\ pc = "run_worker"
  /\ \E spawnOk \in BOOLEAN :
       IF ~spawnOk
       THEN Raise /\ cur' = cur
       ELSE /\ cur' = [cur EXCEPT !.inv = [called |-> TRUE, args |-> WorkerArgs(cur),
                                           exit |-> "running"]]
            /\ pc' = "wait_worker"
            /\ rt' = rt
  /\ UNCHANGED <<backlog, inputFile, outputFile>>

\* The worker transforms the input file into the output file and exits 0.
WorkerSucceed ==
  /\ pc = "wait_worker"
  /\ outputFile' = File(Transform(inputFile.content, cur.inv.args[3], cur.inv.args[4]),
                        "own")
  /\ cur' = [cur EXCEPT !.inv.exit = "0"]
  /\ pc' = "read_output"
  /\ UNCHANGED <<backlog, inputFile, rt>>

\* The worker exits with a non-zero code without writing its output;
\* subprocess.run(cmd) returns and its return code is not looked at.
WorkerFail ==
  /\ pc = "wait_worker"
  /\ cur' = [cur EXCEPT !.inv.exit = "1"]
  /\ pc' = "read_output"
  /\ UNCHANGED <<backlog, inputFile, outputFile, rt>>

\* Lines 53-54 / 76-77: open('/tmp/output.txt', 'r'); f.read().
ReadOutput ==
  /\ pc = "read_output"
  /\ IF ~outputFile.exists
     THEN Raise /\ cur' = cur
     ELSE /\ cur' = [cur EXCEPT !.result = ReadText(outputFile.content),
                                !.src = outputFile.tag]
          /\ pc' = "respond"
          /\ rt' = rt
  /\ UNCHANGED <<backlog, inputFile, outputFile>>

\* Lines 56-57 / 79-80: _set_headers(); wfile.write(json.dumps({"result": result})).
Respond ==
  /\ pc = "respond"
  /\ cur' = [cur EXCEPT !.resp = SetHeaders("application/json", "result", cur.result)]
  /\ pc' = "idle"
  /\ rt' = IF cur.path = EncryptPath /\ cur.inv.exit = "0" /\ cur.body.hasText
           THEN [stage |-> "enc", text |-> cur.body.text, hasKey |-> cur.body.hasKey,
                 key |-> cur.body.key, result |-> cur.result]
           ELSE IF rt.stage = "dec" /\ cur.inv.exit = "0"
           THEN [rt EXCEPT !.stage = "done"]
           ELSE NoExchange
  /\ UNCHANGED <<backlog, inputFile, outputFile>>

Next ==
  \/ Receive
  \/ Accept
  \/ DoOptions
  \/ DoGetStatus
  \/ DoGetStatic
  \/ DoPostNotFound
  \/ ReadBody
  \/ ParseJson
  \/ WriteInput
  \/ SpawnWorker
  \/ WorkerSucceed
  \/ WorkerFail
  \/ ReadOutput
  \/ Respond

\* Every step of the server thread; the worker process is not the server's.
ServerStep ==
  \/ Accept
  \/ DoOptions
  \/ DoGetStatus
  \/ DoGetStatic
  \/ DoPostNotFound
  \/ ReadBody
  \/ ParseJson
  \/ WriteInput
  \/ SpawnWorker
  \/ ReadOutput
  \/ Respond

Spec == Init /\ [][Next]_vars

\* The server thread keeps running; nothing makes the worker terminate.
FairSpec == Spec /\ WF_vars(ServerStep)
\* ------------------------------------------------------------ observations
\* Every request uses the same two literal paths (lines 42, 47, 53).
ScratchPaths(r) == {InputPath, OutputPath}

\* Transform requests received and not yet finished: the one in the handler
\* (index 0) and those waiting at the socket.
InFlight ==
  {i \in 0..Len(backlog) :
     IF i = 0 THEN Busy /\ IsTransform(cur) ELSE IsTransform(backlog[i])}
RequestAt(i) == IF i = 0 THEN cur ELSE backlog[i]

StatusWaiting ==
  /\ backlog # <<>>
  /\ Head(backlog).method = "GET"
  /\ Head(backlog).path = StatusPath
StatusAnswered ==
  /\ Closed
  /\ cur.method = "GET" /\ cur.path = StatusPath
  /\ cur.resp.sent /\ cur.resp.status = 200
  /\ cur.resp.kind = "status" /\ cur.resp.text = <<"running">>

\* C1: a transform request that was in flight together with the request
\* before it reads no scratch output written for that other request, and
\* answers 200 only with output its own worker run wrote.
C1_SessionIsolation ==
  (IsTransform(cur) /\ cur.overlap) =>
     /\ (pc = "respond" => cur.src = "own")
     /\ ((cur.resp.sent /\ cur.resp.status = 200) => cur.src = "own")

\* C2: a request whose worker exited non-zero is answered 500, and once it is
\* finished neither of its scratch files is left.
C2_WorkerFailureIs500 ==
  (Closed /\ cur.inv.exit = "1") =>
     /\ cur.resp.sent /\ cur.resp.status = 500
     /\ ~(inputFile.exists /\ inputFile.tag = "own")
     /\ ~(outputFile.exists /\ outputFile.tag = "own")

\* C3: encrypting a text and then decrypting the returned result with the
\* same key (given or omitted), the worker succeeding both times, returns the
\* original text.
C3_RoundTrip ==
  rt.stage = "done" =>
     /\ cur.resp.sent /\ cur.resp.status = 200
     /\ cur.resp.text = rt.text

\* C4: every request the server has finished with was sent a response with
\* a status code.
C4_EveryRequestAnswered ==
  Closed => (cur.resp.sent /\ cur.resp.status # 0)

\* C5: a transform request with a body that is not well-formed JSON is
\* answered 400 and no worker is run for it.
C5_MalformedJsonIs400 ==
  (IsTransform(cur) /\ cur.bodyRead /\ cur.body.kind = "malformed") =>
     /\ ~cur.inv.called
     /\ (Closed => (cur.resp.sent /\ cur.resp.status = 400))

\* C6: a transform request declaring a body larger than the maximum is
\* answered 413, its body is never read and no worker is run for it.
C6_OversizeIs413 ==
  (IsTransform(cur) /\ cur.hasLength /\ cur.length > MaxBodySize) =>
     /\ ~cur.bodyRead
     /\ ~cur.inv.called
     /\ (Closed => (cur.resp.sent /\ cur.resp.status = 413))

\* C7: a GET for a static path with a ".." segment is answered 403 and no
\* file content is sent; no file outside the working directory is served.
C7_TraversalIs403 ==
  (Closed /\ cur.method = "GET" /\ HasDotDot(cur.path)) =>
     /\ cur.resp.sent /\ cur.resp.status = 403
     /\ cur.resp.kind # "file"
     /\ (cur.resp.kind = "file" => UnderCwd(cur.resp.text))

\* C8: no two transform requests in flight have a scratch path in common.
C8_ExclusivePaths ==
  \A i, j \in InFlight :
     i # j => ScratchPaths(RequestAt(i)) \cap ScratchPaths(RequestAt(j)) = {}

\* C9: when no transform request is in flight, neither scratch file exists.
C9_ScratchRemoved ==
  InFlight = {} => (~inputFile.exists /\ ~outputFile.exists)

\* C10: a GET /api/status waiting at the socket is eventually answered 200
\* with {"status": "running"}, whatever the worker of another request does.
C10_StatusAnswered == StatusWaiting ~> StatusAnswered

\* HTTPServer handles one request at a time and subprocess.run waits for the
\* child, so one worker invocation at most is running.
WorkerLimit == 1
RunningWorkers == IF cur.inv.exit = "running" THEN 1 ELSE 0
QueuedBehindWorker ==
  /\ RunningWorkers = WorkerLimit
  /\ \E i \in 1..Len(backlog) : IsTransform(backlog[i])

\* C11: a request waiting for its worker stops waiting: the worker is
\* terminated at the timeout and the request completes.
C11_WorkerWaitEnds == (pc = "wait_worker") ~> Closed

\* C12: the running worker invocations never exceed the limit, and a
\* transform request that arrives while the limit is reached stops waiting
\* (it is started after a bounded wait or rejected).
C12_Backpressure ==
  /\ [](RunningWorkers <= WorkerLimit)
  /\ (QueuedBehindWorker ~> ~QueuedBehindWorker)

\* C13: every response sent, whatever its status, carries Content-Type and
\* the three Access-Control-Allow-* headers.
C13_HeadersOnEveryReply ==
  cur.resp.sent => CorsHeaders \subseteq cur.resp.headers

\* C14: every worker invocation has the arguments <input path> <output
\* path> <key> <mode>: the key is the body's key as a string, or "3" when the
\* body has none; the mode is "1" on /api/encrypt and "2" on /api/decrypt,
\* whatever the body contains.
C14_WorkerArguments ==
  cur.inv.called =>
     cur.inv.args = <<InputPath, OutputPath,
                      IF cur.body.hasKey THEN ToString(cur.body.key) ELSE "3",
                      IF cur.path = EncryptPath THEN "1" ELSE "2">>
\* A decrypt request without key whose body asks for mode 1 has run its worker.
C14_Witness ==
  /\ cur.inv.called /\ cur.inv.exit = "0"
  /\ cur.path = DecryptPath
  /\ ~cur.body.hasKey
  /\ cur.body.mode = "1"

\* C15: for a transform request with a well-formed JSON object body that has
\* no text field no worker is run, and the response it is sent has status 400.
C15_MissingTextIs400 ==
  (IsTransform(cur) /\ cur.bodyRead /\ cur.body.kind = "object" /\ ~cur.body.hasText) =>
     /\ ~cur.inv.called
     /\ (cur.resp.sent => cur.resp.status = 400)

\* C16: after a request whose handling failed the server is still serving:
\* it can accept the next waiting request, and a GET /api/status accepted
\* right after the failure is being answered, or has been answered, with 200.
C16_StillServing ==
  /\ (Failed /\ backlog # <<>>) => ENABLED Accept
  /\ (cur.afterFailure /\ cur.method = "GET" /\ cur.path = StatusPath) =>
        \/ pc = "dispatch" /\ ENABLED DoGetStatus
        \/ StatusAnswered
\* A status request was answered right after a failed request.
C16_Witness == StatusAnswered /\ cur.afterFailure

\* C17: while a request other than POST /api/encrypt or POST /api/decrypt is
\* handled, no step changes a scratch file or runs a worker.
C17_NoSideEffects ==
  [][(Busy /\ (cur.method # "POST" \/ cur.path \notin {EncryptPath, DecryptPath})) =>
       /\ inputFile'.exists = inputFile.exists
       /\ inputFile'.content = inputFile.content
       /\ outputFile'.exists = outputFile.exists
       /\ outputFile'.content = outputFile.content
       /\ ~cur'.inv.called]_vars
\* Such a request was answered while both scratch files of an earlier
\* transform request were there.
C17_Witness ==
  /\ Closed /\ cur.resp.sent
  /\ (cur.method # "POST" \/ cur.path \notin {EncryptPath, DecryptPath})
  /\ inputFile.exists /\ outputFile.exists

\* C18: the result of every 200 response to a transform request was written
\* by the worker run of that same request, never left by an earlier request.
C18_ResultIsOwnOutput ==
  (IsTransform(cur) /\ cur.resp.sent /\ cur.resp.status = 200) =>
     (cur.inv.called /\ cur.src = "own")
====
